---- MODULE Spec2Model ----
(***************************************************************************)
(* A model of the nest_typeorm_mysql_starter repository:                   *)
(*   - PaginationTransformer.toPaginationResponseDto                       *)
(*       (src/shared/transformers/pagination.transformer.ts)               *)
(*   - UsersService.addUser / getById / getUsers behind UsersController    *)
(*       (src/modules/users/services/users.service.ts)                     *)
(*                                                                         *)
(* JavaScript values are modelled as follows.                              *)
(*   object   [val |-> f, undef |-> U]: f maps the own properties that     *)
(*            hold a defined value to that value, U is the set of own      *)
(*            properties whose value is undefined                          *)
(*   null     Null                                                         *)
(*   string   name and email are sequences of characters (so that the      *)
(*            ILike '%v%' filter is computed), other strings are strings   *)
(*   function [typeof, hasPrototype, prototypeConstructorIsSelf, name]     *)
(*   - ApiClientService.configure / request / executeRequest               *)
(*       (src/core/api-client/api-client.service.ts)                       *)
(***************************************************************************)
EXTENDS Integers, Sequences, FiniteSets, TLC

VARIABLES
  call,       \* the arguments of one toPaginationResponseDto invocation
  outcome,    \* what that invocation did: pending, throw or return
  users,      \* the rows of the users table, in insertion order
  nextId,     \* the next value of the auto-increment primary key
  response,   \* the outcome of the last UsersController request
  pager,      \* the envelopes a paging client has received so far
  inflight,   \* the POST /users requests being handled, by connection
  options,    \* ApiClientService.options of the shared instance
  request     \* the ApiClientService.request call in progress

vars ==
  <<call, outcome, users, nextId, response, pager, inflight, options, request>>

\* the variables outside the pagination transformer, outside the users
\* module and outside the api client
notTransformer == <<users, nextId, response, pager, inflight, options, request>>
notUsers == <<call, outcome, pager, inflight, options, request>>
notApiClient == <<call, outcome, users, nextId, response, pager, inflight>>

----------------------------------------------------------------------------
(* Bounds of the model *)

MaxLen == 2        \* longest items array handed to the transformer
MaxTotal == 3      \* largest totalItems argument
MaxSkip == 4       \* largest skip argument
MaxTake == 3       \* largest take argument
MaxUsers == 2      \* most rows the users table holds
MaxQuerySkip == 2  \* largest skip of a GET /users query
MaxQueryTake == 2  \* largest take of a GET /users query
MaxPagedTotal == 8 \* most records of the dataset a client pages through
MaxPagedTake == 3  \* largest page size of the paging client
MaxRequests == 2   \* most concurrent POST /users requests
MaxRetries == 2    \* largest retries of the api client

----------------------------------------------------------------------------
(* JavaScript values *)

Null == [jsnull |-> TRUE]

Obj(f) == [val |-> f, undef |-> {}]

\* the own property names of an object (Object.keys / toHaveProperty)
Keys(o) == (DOMAIN o.val) \cup o.undef

\* the properties of o whose value is not undefined
Defined(o) == DOMAIN o.val

\* the object literal { k: item[m[k]] for every k in DOMAIN m }: a property
\* read from a missing property is undefined, and the literal still has k
ObjectLiteral(m, item) ==
  [val   |-> [k \in {j \in DOMAIN m : m[j] \in Defined(item)} |-> item.val[m[k]]],
   undef |-> {j \in DOMAIN m : m[j] \notin Defined(item)}]

----------------------------------------------------------------------------
(* The values of the fifth argument, transformerOrClass *)

NoTransform ==
  [typeof |-> "undefined", hasPrototype |-> FALSE,
   prototypeConstructorIsSelf |-> FALSE, name |-> "undefined"]

\* a class declaration: a function whose prototype.constructor is the class
DtoClass(n) ==
  [typeof |-> "function", hasPrototype |-> TRUE,
   prototypeConstructorIsSelf |-> TRUE, name |-> n]

\* an arrow function has no prototype property
ArrowFunction(n) ==
  [typeof |-> "function", hasPrototype |-> FALSE,
   prototypeConstructorIsSelf |-> FALSE, name |-> n]

\* a function declaration or function expression: like a class it has a
\* prototype whose constructor is the function itself
OrdinaryFunction(n) ==
  [typeof |-> "function", hasPrototype |-> TRUE,
   prototypeConstructorIsSelf |-> TRUE, name |-> n]

MockUserDto == DtoClass("MockUserDto")
UserResponseDto == DtoClass("UserResponseDto")
\* the response DTO of the DTO guideline, with @Transform on fullName
UserResponseDtoWithTransform == DtoClass("UserResponseDtoWithTransform")
toDisplayName == ArrowFunction("toDisplayName")
toLowerEmail == ArrowFunction("toLowerEmail")
\* function toDisplayNameFn(item) { return { id: item.id, displayName: item.name } }
toDisplayNameFn == OrdinaryFunction("toDisplayNameFn")

\* the properties a DTO class decorates with @Expose()
Exposed(cls) ==
  CASE cls.name = "MockUserDto" -> {"id", "name"}
    [] cls.name = "UserResponseDto" -> {"id", "name", "email"}
    [] cls.name = "UserResponseDtoWithTransform" -> {"id", "email", "fullName"}
    [] OTHER -> {}

\* String.prototype.toLowerCase, character by character
Lower(c) ==
  CASE c = "A" -> "a"
    [] c = "B" -> "b"
    [] c = "J" -> "j"
    [] c = "K" -> "k"
    [] OTHER -> c

LowerStr(s) == [i \in 1..Len(s) |-> Lower(s[i])]

TypeError == "TypeError: Cannot read properties of undefined"

\* toLowerEmail reads item.email.toLowerCase(): a TypeError when the item
\* has no email; toDisplayName only copies properties and never raises
MapperRaises(fn, item) ==
  fn.name = "toLowerEmail" /\ "email" \notin Defined(item)

\* @Transform(({ value }) => `${value.firstName} ${value.lastName}`) on
\* fullName: a TypeError when the record has no fullName value.
\* plainToInstance builds every instance with `new cls()`: for
\* toDisplayNameFn that runs the function body with item undefined, and the
\* read of item.id is a TypeError
ProjectionRaises(cls, item) ==
  \/ cls.name = "UserResponseDtoWithTransform" /\ "fullName" \notin Defined(item)
  \/ cls.name = "toDisplayNameFn"

\* toDisplayName: (item) => ({ id: item.id, displayName: item.name })
\* toLowerEmail:  (item) => ({ id: item.id, email: item.email.toLowerCase() })
ApplyMapper(fn, item) ==
  IF fn.name = "toLowerEmail"
  THEN LET o == ObjectLiteral([id |-> "id", email |-> "email"], item)
       IN [val   |-> [k \in DOMAIN o.val |->
                        IF k = "email" THEN LowerStr(o.val[k]) ELSE o.val[k]],
           undef |-> o.undef]
  ELSE ObjectLiteral([id |-> "id", displayName |-> "name"], item)

Transforms ==
  {NoTransform, MockUserDto, UserResponseDto, UserResponseDtoWithTransform,
   toDisplayName, toLowerEmail, toDisplayNameFn}

----------------------------------------------------------------------------
(* class-transformer's plainToInstance(cls, value, options), as the        *)
(* repository calls it: excludeExtraneousValues is always true             *)

\* the projection without the whitelist: every own property is copied
ProjectOne_KeepExtraneous(cls, item, exposeUnsetFields) ==
  [val   |-> item.val,
   undef |-> IF exposeUnsetFields THEN Exposed(cls) \ Defined(item) ELSE {}]

ProjectOne(cls, item, exposeUnsetFields) ==
  [val   |-> [k \in Exposed(cls) \cap Defined(item) |-> item.val[k]],
   undef |-> IF exposeUnsetFields THEN Exposed(cls) \ Defined(item) ELSE {}]

plainToInstanceOne(cls, item, exposeUnsetFields) ==
  IF item = Null THEN Null ELSE ProjectOne(cls, item, exposeUnsetFields)

plainToInstance(cls, items, exposeUnsetFields) ==
  [i \in 1..Len(items) |-> plainToInstanceOne(cls, items[i], exposeUnsetFields)]

----------------------------------------------------------------------------
(* PaginationTransformer *)

isClassConstructor(value) ==
  /\ value.typeof = "function"
  /\ value.hasPrototype
  /\ value.prototypeConstructorIsSelf

NoError == ""

\* the three guards, in the order of the code; NoError when all pass
ValidationError_NoTotalCheck(totalItems, skip, take) ==
  IF take <= 0 THEN "Take must be greater than 0"
  ELSE IF skip < 0 THEN "Skip must be non-negative"
  ELSE NoError

\* the guards with skip looked at before take
ValidationError_SkipFirst(totalItems, skip, take) ==
  IF skip < 0 THEN "Skip must be non-negative"
  ELSE IF take <= 0 THEN "Take must be greater than 0"
  ELSE IF totalItems < 0 THEN "Total items must be non-negative"
  ELSE NoError

ValidationError(totalItems, skip, take) ==
  IF take <= 0 THEN "Take must be greater than 0"
  ELSE IF skip < 0 THEN "Skip must be non-negative"
  ELSE IF totalItems < 0 THEN "Total items must be non-negative"
  ELSE NoError

Min(a, b) == IF a < b THEN a ELSE b

\* Math.floor(a / b) and Math.ceil(a / b) for an integer a and b > 0
MathFloor(a, b) == a \div b

MathCeil(a, b) == IF a % b = 0 THEN a \div b ELSE (a \div b) + 1

\* x || y on numbers: 0 is falsy
OrElse(x, y) == IF x = 0 THEN y ELSE x

currentPage_Ceil(skip, take) == MathCeil(skip, take) + 1

currentPage_ZeroBased(skip, take) == MathFloor(skip, take)

currentPage(skip, take) == MathFloor(skip, take) + 1

totalPages_NoFallback(totalItems, take) == MathCeil(totalItems, take)

totalPages(totalItems, take) == OrElse(MathCeil(totalItems, take), 1)

hasNextPage_Inclusive(cp, tp) == cp <= tp

hasNextPage(cp, tp) == cp < tp

hasPreviousPage_FromZero(cp) == cp > 0

hasPreviousPage(cp) == cp > 1

\* line 90: without a transform the items array itself is the data
rawData_Projected(data) ==
  [i \in 1..Len(data) |-> ProjectOne(UserResponseDto, data[i], FALSE)]

rawData(data) == data

Transformed(data, mapperCalls, projectionCalls) ==
  [error |-> NoError, data |-> data,
   mapperCalls |-> mapperCalls, projectionCalls |-> projectionCalls]

Raised(error, mapperCalls, projectionCalls) ==
  [error |-> error, data |-> <<>>,
   mapperCalls |-> mapperCalls, projectionCalls |-> projectionCalls]

\* the least element of a non-empty set of indices
First(indices) == CHOOSE i \in indices : \A j \in indices : i <= j

\* lines 93-100: plainToInstance over the array; an error raised for one
\* record leaves the call
classData(data, cls) ==
  IF \E i \in 1..Len(data) : ProjectionRaises(cls, data[i])
  THEN Raised(TypeError, 0, 1)
  ELSE Transformed(plainToInstance(cls, data, FALSE), 0, 1)

\* a mapping that leaves out the items the mapper raises on
mapData_SkipFailed(data, fn) ==
  LET kept == SelectSeq(data, LAMBDA item : ~MapperRaises(fn, item))
  IN Transformed([i \in 1..Len(kept) |-> ApplyMapper(fn, kept[i])],
                 Len(data), 0)

\* a mapping that fills the result from the last item to the first
mapData_Reversed(data, fn) ==
  IF \E i \in 1..Len(data) : MapperRaises(fn, data[i])
  THEN Raised(TypeError,
              First({i \in 1..Len(data) : MapperRaises(fn, data[i])}), 0)
  ELSE Transformed([i \in 1..Len(data) |->
                      ApplyMapper(fn, data[Len(data) + 1 - i])],
                   Len(data), 0)

\* a mapping that loses the last item
mapData_DropsLast(data, fn) ==
  IF \E i \in 1..Len(data) : MapperRaises(fn, data[i])
  THEN Raised(TypeError,
              First({i \in 1..Len(data) : MapperRaises(fn, data[i])}), 0)
  ELSE Transformed([i \in 1..(Len(data) - 1) |-> ApplyMapper(fn, data[i])],
                   Len(data), 0)

\* lines 103-105: data.map applies the mapper to the items in order; the
\* first item it raises on ends the call with that error
mapData(data, fn) ==
  IF \E i \in 1..Len(data) : MapperRaises(fn, data[i])
  THEN Raised(TypeError,
              First({i \in 1..Len(data) : MapperRaises(fn, data[i])}), 0)
  ELSE Transformed([i \in 1..Len(data) |-> ApplyMapper(fn, data[i])],
                   Len(data), 0)

\* lines 85-106: the transformed items, with the number of times the mapper
\* and plainToInstance were invoked on the way
transformedData(data, transformerOrClass) ==
  IF transformerOrClass.typeof = "undefined"
  THEN Transformed(rawData(data), 0, 0)
  ELSE IF isClassConstructor(transformerOrClass)
  THEN classData(data, transformerOrClass)
  ELSE mapData(data, transformerOrClass)

Throw(message, mapperCalls, projectionCalls) ==
  [kind |-> "throw", message |-> message, value |-> Null,
   mapperCalls |-> mapperCalls, projectionCalls |-> projectionCalls]

Return(value, mapperCalls, projectionCalls) ==
  [kind |-> "return", message |-> NoError, value |-> value,
   mapperCalls |-> mapperCalls, projectionCalls |-> projectionCalls]

itemsPerPage_Realized(transformed, take) == Len(transformed)

\* line 113: the requested page size
itemsPerPage(transformed, take) == take

\* lines 108-116: the envelope
PaginationResponseDto(transformed, totalItems, skip, take) ==
  LET cp == currentPage(skip, take)
      tp == totalPages(totalItems, take)
  IN [data |-> transformed, totalItems |-> totalItems,
      totalPages |-> tp, currentPage |-> cp,
      itemsPerPage |-> itemsPerPage(transformed, take),
      hasNextPage |-> hasNextPage(cp, tp),
      hasPreviousPage |-> hasPreviousPage(cp)]

\* the same operation with the items transformed before the guards run
toPaginationResponseDto_TransformFirst(data, totalItems, skip, take, transformerOrClass) ==
  LET t == transformedData(data, transformerOrClass)
      error == ValidationError(totalItems, skip, take)
  IN IF t.error # NoError
     THEN Throw(t.error, t.mapperCalls, t.projectionCalls)
     ELSE IF error # NoError
     THEN Throw(error, t.mapperCalls, t.projectionCalls)
     ELSE Return(PaginationResponseDto(t.data, totalItems, skip, take),
                 t.mapperCalls, t.projectionCalls)

toPaginationResponseDto(data, totalItems, skip, take, transformerOrClass) ==
  LET error == ValidationError(totalItems, skip, take)
  IN IF error # NoError
     THEN Throw(error, 0, 0)
     ELSE LET t == transformedData(data, transformerOrClass)
          IN IF t.error # NoError
             THEN Throw(t.error, t.mapperCalls, t.projectionCalls)
             ELSE Return(PaginationResponseDto(t.data, totalItems, skip, take),
                         t.mapperCalls, t.projectionCalls)

----------------------------------------------------------------------------
(* The inputs of the transformer *)

Passwords == {"secret1", "secret2"}

JOHN == <<"j", "o">>
MAIL == <<"j", "@", "x">>

\* the ids of the two records of the test data
ItemIds == {1, 2}

\* raw records: with every column, and without the email column
Items ==
  {Obj([id |-> i, name |-> JOHN, email |-> MAIL, password |-> p]) :
     i \in ItemIds, p \in Passwords}
  \cup
  {Obj([id |-> i, name |-> JOHN, password |-> "secret1"]) : i \in ItemIds}

SeqsUpTo(S, n) == UNION {[1..k -> S] : k \in 0..n}

Calls ==
  [data : SeqsUpTo(Items, MaxLen),
   totalItems : (-1)..MaxTotal,
   skip : (-1)..MaxSkip,
   take : (-1)..MaxTake,
   transformerOrClass : Transforms]

Pending ==
  [kind |-> "pending", message |-> NoError, value |-> Null,
   mapperCalls |-> 0, projectionCalls |-> 0]

\* the call in `call` is made
Invoke ==
  /\ outcome.kind = "pending"
  /\ outcome' = toPaginationResponseDto(call.data, call.totalItems, call.skip,
                                        call.take, call.transformerOrClass)
  /\ UNCHANGED <<call, notTransformer>>

\* no POST /users request is being handled
NoRequests == [c \in 1..MaxRequests |-> [pc |-> "idle"]]

\* this.options = {} of the constructor
NoOptions == [k \in {} |-> ""]

\* no ApiClientService.request call has been made
NoRequest == [pc |-> "idle"]

NoResponse ==
  [op |-> "none", arg |-> Null, kind |-> "none", value |-> Null,
   message |-> ""]

InitTransformer ==
  /\ call \in Calls
  /\ outcome = Pending
  /\ users = <<>>
  /\ nextId = 1
  /\ response = NoResponse
  /\ pager = <<>>
  /\ inflight = NoRequests
  /\ options = NoOptions
  /\ request = NoRequest

NextTransformer == Invoke

SpecTransformer == InitTransformer /\ [][NextTransformer]_vars

----------------------------------------------------------------------------
(* The service pattern of the pagination guideline (ExampleService.getMany *)
(* and getUsersWithCustomTransform)                                        *)

\* the guideline passes query.take as the third argument and query.skip as
\* the fourth
getMany(items, total, query, transformer) ==
  toPaginationResponseDto(items, total, query.val.take, query.val.skip,
                          transformer)

\* a validated page query with the rows and the count the repository gave
GuidelineCalls ==
  [data : SeqsUpTo(Items, MaxLen),
   totalItems : 0..MaxTotal,
   skip : 0..MaxSkip,
   take : 1..MaxTake,
   transformerOrClass : {NoTransform, toDisplayName}]

\* getMany is called for the query in `call`
InvokeGetMany ==
  /\ outcome.kind = "pending"
  /\ outcome' = getMany(call.data, call.totalItems,
                        Obj([skip |-> call.skip, take |-> call.take]),
                        call.transformerOrClass)
  /\ UNCHANGED <<call, notTransformer>>

InitGuideline ==
  /\ call \in GuidelineCalls
  /\ outcome = Pending
  /\ users = <<>>
  /\ nextId = 1
  /\ response = NoResponse
  /\ pager = <<>>
  /\ inflight = NoRequests
  /\ options = NoOptions
  /\ request = NoRequest

NextGuideline == InvokeGetMany

SpecGuideline == InitGuideline /\ [][NextGuideline]_vars

----------------------------------------------------------------------------
(* A caller that keeps its items array after the call and changes it *)

\* line 90 assigns the items array itself to the envelope's data, while
\* plainToInstance (line 93) and data.map (line 103) build a new array
dataIsItemsArray(transformerOrClass) == transformerOrClass.typeof = "undefined"

CallerItems ==
  {Obj([id |-> i, name |-> JOHN, email |-> MAIL, password |-> "secret1"]) :
     i \in ItemIds}

CallerCalls ==
  [data : SeqsUpTo(CallerItems, MaxLen),
   totalItems : {MaxTotal},
   skip : {0},
   take : 1..MaxTake,
   transformerOrClass : {NoTransform, UserResponseDto, toDisplayName}]

\* the items array now holds newItems: an envelope whose data is that same
\* array shows the change
ItemsChange(newItems) ==
  /\ call' = [call EXCEPT !.data = newItems]
  /\ outcome' = IF dataIsItemsArray(call.transformerOrClass)
                THEN [outcome EXCEPT !.value.data = newItems]
                ELSE outcome
  /\ UNCHANGED notTransformer

\* items.push(item)
Push(item) ==
  /\ outcome.kind = "return"
  /\ Len(call.data) < MaxLen
  /\ ItemsChange(Append(call.data, item))

\* items.pop()
Pop ==
  /\ outcome.kind = "return"
  /\ Len(call.data) > 0
  /\ ItemsChange(SubSeq(call.data, 1, Len(call.data) - 1))

\* items[i] = item
Replace(i, item) ==
  /\ outcome.kind = "return"
  /\ i \in 1..Len(call.data)
  /\ call.data[i] # item
  /\ ItemsChange([call.data EXCEPT ![i] = item])

InitCaller ==
  /\ call \in CallerCalls
  /\ outcome = Pending
  /\ users = <<>>
  /\ nextId = 1
  /\ response = NoResponse
  /\ pager = <<>>
  /\ inflight = NoRequests
  /\ options = NoOptions
  /\ request = NoRequest

NextCaller ==
  \/ Invoke
  \/ \E item \in CallerItems : Push(item)
  \/ Pop
  \/ \E i \in 1..MaxLen, item \in CallerItems : Replace(i, item)

SpecCaller == InitCaller /\ [][NextCaller]_vars

----------------------------------------------------------------------------
(* A client that pages through a dataset of totalItems records: it starts  *)
(* at skip = 0 and asks for the next window, skip + take, as long as the   *)
(* envelope says hasNextPage                                               *)

\* record number k of the dataset, k = 0, 1, ...
PagedRecord(k) == Obj([id |-> k + 1])

\* the records of the window [skip, skip + take) of a dataset of n records
Window(n, skip, take) ==
  [i \in 1..(Min(skip + take, n) - Min(skip, n)) |-> PagedRecord(skip + i - 1)]

PagedCalls ==
  {[data |-> Window(n, 0, t), totalItems |-> n, skip |-> 0, take |-> t,
    transformerOrClass |-> NoTransform] :
     n \in 0..MaxPagedTotal, t \in 1..MaxPagedTake}

\* the client sends the request in `call` and keeps the envelope
Ask ==
  /\ outcome.kind = "pending"
  /\ outcome' = toPaginationResponseDto(call.data, call.totalItems, call.skip,
                                        call.take, call.transformerOrClass)
  /\ pager' = Append(pager, [skip |-> call.skip, envelope |-> outcome'.value])
  /\ UNCHANGED <<call, users, nextId, response, inflight, options, request>>

\* the envelope has hasNextPage: the next request has skip + take
TurnPage ==
  /\ outcome.kind = "return"
  /\ outcome.value.hasNextPage
  /\ call' = [call EXCEPT
                !.skip = call.skip + call.take,
                !.data = Window(call.totalItems, call.skip + call.take,
                                call.take)]
  /\ outcome' = Pending
  /\ UNCHANGED <<users, nextId, response, pager, inflight, options, request>>

InitPager ==
  /\ call \in PagedCalls
  /\ outcome = Pending
  /\ users = <<>>
  /\ nextId = 1
  /\ response = NoResponse
  /\ pager = <<>>
  /\ inflight = NoRequests
  /\ options = NoOptions
  /\ request = NoRequest

NextPager == Ask \/ TurnPage

\* the client's loop runs on as long as it has a step to take
SpecPager == InitPager /\ [][NextPager]_vars /\ WF_vars(NextPager)

----------------------------------------------------------------------------
(* The users table and the typeorm repository *)

UserEmails == {<<"a", "@">>, <<"A", "b">>}
UserNames == {<<"j">>, <<"J", "k">>}
UserPasswords == {"password123"}

\* a validated CreateUserRequestDto: email, name and password
CreateUserRequestDtos ==
  {Obj([email |-> e, name |-> n, password |-> p]) :
     e \in UserEmails, n \in UserNames, p \in UserPasswords}

\* a validated GetUsersQueryDto: skip and take, and optionally email, name
EmailFilters == {<<"a">>, <<"b">>}
NameFilters == {<<"j">>}

GetUsersQueryDtos ==
  {Obj([skip |-> s, take |-> t]) :
     s \in 0..MaxQuerySkip, t \in 1..MaxQueryTake}
  \cup
  {Obj([skip |-> s, take |-> t, email |-> e]) :
     s \in 0..MaxQuerySkip, t \in 1..MaxQueryTake, e \in EmailFilters}
  \cup
  {Obj([skip |-> s, take |-> t, name |-> n]) :
     s \in 0..MaxQuerySkip, t \in 1..MaxQueryTake, n \in NameFilters}
  \cup
  {Obj([skip |-> s, take |-> t, email |-> e, name |-> n]) :
     s \in 0..MaxQuerySkip, t \in 1..MaxQueryTake,
     e \in EmailFilters, n \in NameFilters}

\* the operator ILike(`%${value}%`): a case-insensitive substring match
ILike(value, column) ==
  LET p == LowerStr(value)
      c == LowerStr(column)
  IN \E i \in 1..(Len(c) - Len(p) + 1) : SubSeq(c, i, i + Len(p) - 1) = p

\* a save that gives every new row the first key
save_FirstId(user, id) ==
  Obj([k \in Defined(user) \cup {"id"} |->
         IF k = "id" THEN 1 ELSE user.val[k]])

\* Repository.save of a new row: the primary key is generated
save(user, id) ==
  Obj([k \in Defined(user) \cup {"id"} |->
         IF k = "id" THEN id ELSE user.val[k]])

\* Repository.findOne({ where: { id } }): the row, or null
findOne(store, id) ==
  IF \E i \in 1..Len(store) : store[i].val.id = id
  THEN store[CHOOSE i \in 1..Len(store) : store[i].val.id = id]
  ELSE Null

Matches(row, filters) ==
  \A k \in DOMAIN filters : ILike(filters[k], row.val[k])

\* a window that starts one row late
findAndCount_SkipsOneMore(store, filters, skip, take) ==
  LET matching == SelectSeq(store, LAMBDA row : Matches(row, filters))
  IN [rows  |-> SubSeq(matching, skip + 2, Min(skip + take, Len(matching))),
      total |-> Len(matching)]

\* Repository.findAndCount({ where, skip, take }): the window and the count
\* of all matching rows
findAndCount(store, filters, skip, take) ==
  LET matching == SelectSeq(store, LAMBDA row : Matches(row, filters))
  IN [rows  |-> SubSeq(matching, skip + 1, Min(skip + take, Len(matching))),
      total |-> Len(matching)]

----------------------------------------------------------------------------
(* UsersService *)

\* the strategies of GetUsersQueryDto's own filter properties; skip and
\* take are passed over, and so is a property that is undefined
buildFilters(query) ==
  [k \in Defined(query) \cap {"name", "email"} |-> query.val[k]]

\* the value addUser returns for the saved row
addUser(createdUser) ==
  Return(plainToInstanceOne(UserResponseDto, createdUser, TRUE), 0, 1)

getById(store, id) ==
  LET user == findOne(store, id)
  IN Return(plainToInstanceOne(UserResponseDto, user, TRUE), 0, 1)

getUsers_Raw(store, query) ==
  LET filters == buildFilters(query)
      found == findAndCount(store, filters, query.val.skip, query.val.take)
  IN toPaginationResponseDto(found.rows, found.total, query.val.skip,
                             query.val.take, NoTransform)

getUsers(store, query) ==
  LET filters == buildFilters(query)
      found == findAndCount(store, filters, query.val.skip, query.val.take)
  IN toPaginationResponseDto(found.rows, found.total, query.val.skip,
                             query.val.take, UserResponseDto)

----------------------------------------------------------------------------
(* UsersController: each handler returns what the service returns *)

Response(op, arg, result) ==
  [op |-> op, arg |-> arg, kind |-> result.kind, value |-> result.value,
   message |-> result.message]

\* POST /users
AddUser(user) ==
  /\ Len(users) < MaxUsers
  /\ LET createdUser == save(user, nextId)
     IN /\ users' = Append(users, createdUser)
        /\ nextId' = nextId + 1
        /\ response' = Response("addUser", user, addUser(createdUser))
  /\ UNCHANGED notUsers

\* GET /users/:id
GetById(id) ==
  /\ response' = Response("getById", Obj([id |-> id]), getById(users, id))
  /\ UNCHANGED <<users, nextId, notUsers>>

\* GET /users
GetUsers(query) ==
  /\ response' = Response("getUsers", query, getUsers(users, query))
  /\ UNCHANGED <<users, nextId, notUsers>>

\* the status of the HTTP response: 201 for a POST handler that returns,
\* 200 for a GET handler that returns, the status of the exception otherwise
HttpStatus(r) ==
  IF r.kind = "return"
  THEN (IF r.op = "addUser" THEN 201 ELSE 200)
  ELSE IF r.message = "NotFoundException" THEN 404 ELSE 500

IdleCall ==
  [data |-> <<>>, totalItems |-> 0, skip |-> 0, take |-> 1,
   transformerOrClass |-> NoTransform]

Init ==
  /\ call = IdleCall
  /\ outcome = Pending
  /\ users = <<>>
  /\ nextId = 1
  /\ response = NoResponse
  /\ pager = <<>>
  /\ inflight = NoRequests
  /\ options = NoOptions
  /\ request = NoRequest

Next ==
  \/ \E user \in CreateUserRequestDtos : AddUser(user)
  \/ \E id \in 1..(MaxUsers + 1) : GetById(id)
  \/ \E query \in GetUsersQueryDtos : GetUsers(query)

Spec == Init /\ [][Next]_vars

----------------------------------------------------------------------------
(* POST /users requests handled concurrently: a handler runs up to its     *)
(* await of Repository.save, the database executes the INSERT, and the     *)
(* handler resumes with the saved row                                      *)

Digits == <<"0", "1", "2", "3", "4", "5", "6", "7", "8", "9">>

\* the body of request c: email `concurrent${c}@example.com`
ConcurrentUser(c) ==
  Obj([email |-> <<"c", Digits[c + 1], "@">>, name |-> <<"u", Digits[c + 1]>>,
       password |-> "password123"])

\* request c arrives: UsersController.addUser calls UsersService.addUser,
\* which calls Repository.save and awaits it
Post(c) ==
  /\ inflight[c].pc = "idle"
  /\ inflight' = [inflight EXCEPT ![c] =
                    [pc |-> "saving", user |-> ConcurrentUser(c)]]
  /\ UNCHANGED <<call, outcome, users, nextId, response, pager, options, request>>

\* the database executes the INSERT of request c and generates its key
Insert(c) ==
  /\ inflight[c].pc = "saving"
  /\ LET createdUser == save(inflight[c].user, nextId)
     IN /\ users' = Append(users, createdUser)
        /\ nextId' = nextId + 1
        /\ inflight' = [inflight EXCEPT ![c] =
                          [pc |-> "saved", user |-> inflight[c].user,
                           createdUser |-> createdUser]]
  /\ UNCHANGED <<call, outcome, response, pager, options, request>>

\* the handler of request c resumes after the await and answers
Respond(c) ==
  /\ inflight[c].pc = "saved"
  /\ inflight' = [inflight EXCEPT ![c] =
                    [pc |-> "done", user |-> inflight[c].user,
                     result |-> Response("addUser", inflight[c].user,
                                         addUser(inflight[c].createdUser))]]
  /\ UNCHANGED <<call, outcome, users, nextId, response, pager, options, request>>

\* the GET /users requests without a filter
UnfilteredQueries ==
  {query \in GetUsersQueryDtos : Defined(query) = {"skip", "take"}}

NextConcurrent ==
  \/ \E c \in 1..MaxRequests : Post(c)
  \/ \E c \in 1..MaxRequests : Insert(c)
  \/ \E c \in 1..MaxRequests : Respond(c)
  \/ \E query \in UnfilteredQueries : GetUsers(query)

SpecConcurrent == Init /\ [][NextConcurrent]_vars

----------------------------------------------------------------------------
(* ApiClientService.  An options or config object is a function from its  *)
(* own property names to their values; a property that was never set is    *)
(* not in the domain.                                                      *)

defaultTimeout == 10000
defaultRetries == 0

\* Object.assign(target, source) and { ...target, ...source }
ObjectAssign(target, source) ==
  [k \in (DOMAIN target) \cup (DOMAIN source) |->
     IF k \in DOMAIN source THEN source[k] ELSE target[k]]

\* o.k ?? fallback
OrDefault(o, k, fallback) == IF k \in DOMAIN o THEN o[k] ELSE fallback

EmptyObject == [k \in {} |-> ""]

\* default headers a caller configures, and headers a request brings
DefaultHeaders == [authorization |-> "token", accept |-> "json"]
RequestHeaders == [accept |-> "xml"]

\* the arguments of the configure calls
ConfigureOptions ==
  {[baseURL |-> "https://a", timeout |-> 5000]}
  \cup {[headers |-> DefaultHeaders]}
  \cup {[retries |-> r] : r \in 0..MaxRetries}

\* the config of get(url) and of get(url, { headers })
RequestConfigs ==
  {[method |-> "GET", url |-> "/x"],
   [method |-> "GET", url |-> "/x", headers |-> RequestHeaders]}

\* the second argument of request: absent, or { retries }
RequestOptions == {EmptyObject} \cup {[retries |-> r] : r \in 0..MaxRetries}

ApiErrors == {"ECONNRESET", "ETIMEDOUT"}
ApiData == {"d1", "d2"}

\* a resolution that takes 0 for "not given"
retriesOf_FalsyIsUnset(callOptions, opts) ==
  IF "retries" \in DOMAIN callOptions /\ callOptions.retries # 0
  THEN callOptions.retries
  ELSE IF "retries" \in DOMAIN opts /\ opts.retries # 0 THEN opts.retries
  ELSE defaultRetries

\* lines 71-72: options?.retries ?? this.options.retries ?? defaultRetries
retriesOf(callOptions, opts) ==
  IF "retries" \in DOMAIN callOptions THEN callOptions.retries
  ELSE OrDefault(opts, "retries", defaultRetries)

\* lines 37-42: the object handed to axios.request.  The properties of
\* config are spread last, so a headers property of config takes the place
\* of the merged headers; baseURL is left out when this.options has none
\* (axios treats an undefined property as not given)
axiosConfig(opts, config) ==
  LET merged == ObjectAssign(OrDefault(opts, "headers", EmptyObject),
                             OrDefault(config, "headers", EmptyObject))
      base == ObjectAssign(
                [timeout |-> OrDefault(opts, "timeout", defaultTimeout),
                 headers |-> merged],
                [k \in (DOMAIN opts) \cap {"baseURL"} |-> opts[k]])
  IN ObjectAssign(base, config)

NoResult == [kind |-> "none", value |-> ""]

\* lines 67-73 and 30-42: request resolves the retries and executeRequest
\* sends the first attempt
started(config, callOptions, opts) ==
  [pc |-> "awaiting", config |-> config, callOptions |-> callOptions,
   optionsAtCall |-> opts,
   retriesLeft |-> retriesOf(callOptions, opts),
   attempts |-> 1, failures |-> 0,
   sent |-> axiosConfig(opts, config),
   lastError |-> "none", result |-> NoResult]

\* a fulfilment that still reports the error of an earlier attempt
onFulfilled_SurfacesEarlierError(req, data) ==
  IF req.failures > 0
  THEN [req EXCEPT !.pc = "rejected",
                   !.result = [kind |-> "error", value |-> req.lastError]]
  ELSE [req EXCEPT !.pc = "resolved",
                   !.result = [kind |-> "data", value |-> data]]

\* lines 44-50 and 74: the attempt is fulfilled, request resolves with
\* response.data
onFulfilled(req, data) ==
  [req EXCEPT !.pc = "resolved",
              !.result = [kind |-> "data", value |-> data]]

\* lines 51-64: the attempt is rejected: with retries left executeRequest
\* calls itself, which sends the next attempt with the options the service
\* has now; otherwise the error is thrown
onRejected(req, error, opts) ==
  IF req.retriesLeft > 0
  THEN [req EXCEPT !.retriesLeft = req.retriesLeft - 1,
                   !.attempts = req.attempts + 1,
                   !.failures = req.failures + 1,
                   !.sent = axiosConfig(opts, req.config),
                   !.lastError = error]
  ELSE [req EXCEPT !.pc = "rejected",
                   !.failures = req.failures + 1,
                   !.lastError = error,
                   !.result = [kind |-> "error", value |-> error]]

\* configure(options), by any holder of the shared instance
Configure(opts) ==
  /\ options' = ObjectAssign(options, opts)
  /\ UNCHANGED <<request, notApiClient>>

\* request(config, options), once the call before it has settled
Request(config, callOptions) ==
  /\ request.pc # "awaiting"
  /\ request' = started(config, callOptions, options)
  /\ UNCHANGED <<options, notApiClient>>

\* axios.request is fulfilled with a response that has this data
AttemptSucceeds(data) ==
  /\ request.pc = "awaiting"
  /\ request' = onFulfilled(request, data)
  /\ UNCHANGED <<options, notApiClient>>

\* axios.request is rejected with this error
AttemptFails(error) ==
  /\ request.pc = "awaiting"
  /\ request' = onRejected(request, error, options)
  /\ UNCHANGED <<options, notApiClient>>

AttemptCompletes ==
  \/ \E data \in ApiData : AttemptSucceeds(data)
  \/ \E error \in ApiErrors : AttemptFails(error)

NextApiClient ==
  \/ \E opts \in ConfigureOptions : Configure(opts)
  \/ \E config \in RequestConfigs, callOptions \in RequestOptions :
       Request(config, callOptions)
  \/ \E data \in ApiData : AttemptSucceeds(data)
  \/ \E error \in ApiErrors : AttemptFails(error)

\* every attempt axios is given completes, one way or the other
SpecApiClient ==
  Init /\ [][NextApiClient]_vars /\ WF_vars(AttemptCompletes)

----------------------------------------------------------------------------
(* Properties of toPaginationResponseDto, checked under SpecTransformer *)

Called == outcome.kind # "pending"

Returned == outcome.kind = "return"

Thrown == outcome.kind = "throw"

DtoClasses == {MockUserDto, UserResponseDto}

EnvelopeFields ==
  {"data", "totalItems", "totalPages", "currentPage", "itemsPerPage",
   "hasNextPage", "hasPreviousPage"}

ValidationMessages ==
  {"Take must be greater than 0", "Skip must be non-negative",
   "Total items must be non-negative"}

InvalidArguments == call.take <= 0 \/ call.skip < 0 \/ call.totalItems < 0

\* the transform of the call raises on one of the items
TransformRaises ==
  \E i \in 1..Len(call.data) :
    \/ /\ call.transformerOrClass.typeof = "function"
       /\ ~isClassConstructor(call.transformerOrClass)
       /\ MapperRaises(call.transformerOrClass, call.data[i])
    \/ /\ isClassConstructor(call.transformerOrClass)
       /\ ProjectionRaises(call.transformerOrClass, call.data[i])

\* C1: the call is rejected with an argument error if and only if
\* take <= 0 or skip < 0 or totalItems < 0; every other call (skip = 0 and
\* totalItems = 0 included) whose transform raises on no item returns an
\* envelope.
C1_FailsIffInvalid ==
  Called =>
    /\ (Thrown /\ outcome.message \in ValidationMessages) <=> InvalidArguments
    /\ (~InvalidArguments /\ ~TransformRaises) =>
         (Returned /\ DOMAIN outcome.value = EnvelopeFields)

C1_Witness ==
  Returned /\ call.skip = 0 /\ call.totalItems = 0 /\ call.take > 0

\* C2: a rejected call has done no transformation work: the mapper was
\* invoked zero times, the projection was not invoked, and no envelope
\* (not even a partial one) is returned.
C2_RejectsBeforeTransforming ==
  (Called /\ InvalidArguments) =>
    /\ Thrown
    /\ outcome.mapperCalls = 0
    /\ outcome.projectionCalls = 0
    /\ outcome.value = Null

C2_Witness ==
  /\ Thrown
  /\ InvalidArguments
  /\ call.transformerOrClass = toDisplayName
  /\ Len(call.data) > 0

\* C3: currentPage is floor(skip / take) + 1, that is the one page p with
\* (p - 1) * take <= skip < p * take; it is the same whatever the number of
\* items and whatever totalItems, and so is not clamped to totalPages.
C3_CurrentPage ==
  Returned =>
    LET p == outcome.value.currentPage
    IN /\ (p - 1) * call.take <= call.skip
       /\ call.skip < p * call.take
       /\ \A n \in 0..Len(call.data), t \in 0..MaxTotal :
            toPaginationResponseDto(SubSeq(call.data, 1, n), t, call.skip,
              call.take, call.transformerOrClass).value.currentPage = p

C3_Witness ==
  /\ Returned
  /\ call.skip % call.take # 0
  /\ outcome.value.currentPage > outcome.value.totalPages

\* C4: totalPages is ceil(totalItems / take) when totalItems > 0 and 1 when
\* totalItems = 0; so totalPages >= 1, and for totalItems > 0
\* (totalPages - 1) * take < totalItems <= totalPages * take.
C4_TotalPages ==
  Returned =>
    LET tp == outcome.value.totalPages
    IN /\ tp >= 1
       /\ call.totalItems = 0 => tp = 1
       /\ call.totalItems > 0 =>
            /\ (tp - 1) * call.take < call.totalItems
            /\ call.totalItems <= tp * call.take

C4_Witness == Returned /\ call.totalItems = 0 /\ outcome.value.totalPages = 1

\* C5: hasNextPage is true if and only if currentPage < totalPages of the
\* same envelope.
C5_HasNextPage ==
  Returned =>
    (outcome.value.hasNextPage
       <=> outcome.value.currentPage < outcome.value.totalPages)

C5_Witness ==
  /\ Returned
  /\ outcome.value.hasNextPage
  /\ outcome.value.currentPage + 1 = outcome.value.totalPages

\* C6: hasPreviousPage is true if and only if currentPage > 1, which is
\* exactly when skip >= take; it is false for every skip in 0..take-1.
C6_HasPreviousPage ==
  Returned =>
    /\ outcome.value.hasPreviousPage <=> outcome.value.currentPage > 1
    /\ outcome.value.hasPreviousPage <=> call.skip >= call.take

C6_Witness ==
  /\ Returned
  /\ call.skip > 0
  /\ call.skip < call.take
  /\ ~outcome.value.hasPreviousPage

\* a and b have the same value, or the same lack of one, in every property
\* of ks
AgreeOn(a, b, ks) ==
  \A k \in ks :
    /\ k \in Defined(a) <=> k \in Defined(b)
    /\ k \in Defined(a) => a.val[k] = b.val[k]

\* C7: with a DTO class as transform every element of data has only
\* properties the class exposes (password is absent), and an item that
\* differs from the input item only in unexposed properties gives the same
\* output element.
C7_OnlyExposedFields ==
  (Returned /\ call.transformerOrClass \in DtoClasses) =>
    LET cls == call.transformerOrClass
        out == outcome.value.data
    IN /\ Len(out) = Len(call.data)
       /\ \A i \in 1..Len(out) :
            /\ Keys(out[i]) \subseteq Exposed(cls)
            /\ "password" \notin Keys(out[i])
            /\ \A r \in Items :
                 AgreeOn(r, call.data[i], Exposed(cls)) =>
                   toPaginationResponseDto(<<r>>, call.totalItems, call.skip,
                     call.take, cls).value.data[1] = out[i]

C7_Witness ==
  /\ Returned
  /\ call.transformerOrClass \in DtoClasses
  /\ Len(call.data) > 0
  /\ "password" \in Keys(call.data[1])
  /\ "password" \notin Keys(outcome.value.data[1])

\* C11: the guideline's call, with take as the third argument and skip as
\* the fourth, gives the envelope of the requested window: it does not fail
\* for the first page, itemsPerPage is query.take and currentPage is
\* floor(query.skip / query.take) + 1.  (Checked under SpecGuideline.)
C11_GuidelineWindow ==
  Called =>
    /\ Returned
    /\ outcome.value.itemsPerPage = call.take
    /\ outcome.value.currentPage = (call.skip \div call.take) + 1

\* C12: when the mapper or the projection raises on an item of a call with
\* valid arguments, the call fails with that error and returns no envelope,
\* so no partly transformed list reaches the caller.
C12_TransformFailurePropagates ==
  (Called /\ ~InvalidArguments /\ TransformRaises) =>
    /\ Thrown
    /\ outcome.message = TypeError
    /\ outcome.value = Null

C12_Witness ==
  /\ Thrown
  /\ call.transformerOrClass = toLowerEmail
  /\ Len(call.data) = 2
  /\ ~MapperRaises(toLowerEmail, call.data[1])
  /\ MapperRaises(toLowerEmail, call.data[2])

\* C13 as stated: with totalItems > 0 and skip >= totalItems, currentPage is
\* strictly greater than totalPages.
C13_OvershootIsBeyondTotalPages ==
  (Returned /\ call.totalItems > 0 /\ call.skip >= call.totalItems) =>
    outcome.value.currentPage > outcome.value.totalPages

\* C13 as amended: with totalItems > 0 and skip >= totalItems, currentPage
\* is at least totalPages, and strictly greater exactly when
\* skip >= totalPages * take.
C13_OvershootIsAtLeastTotalPages ==
  (Returned /\ call.totalItems > 0 /\ call.skip >= call.totalItems) =>
    /\ outcome.value.currentPage >= outcome.value.totalPages
    /\ outcome.value.currentPage > outcome.value.totalPages
         <=> call.skip >= outcome.value.totalPages * call.take

C13_Witness ==
  /\ Returned
  /\ call.totalItems > 0
  /\ call.skip >= call.totalItems
  /\ call.skip < outcome.value.totalPages * call.take
  /\ outcome.value.currentPage = outcome.value.totalPages

\* C14: with skip >= totalItems (the empty dataset included) hasNextPage is
\* false.
C14_NoNextPageBeyondEnd ==
  (Returned /\ call.skip >= call.totalItems) => ~outcome.value.hasNextPage

C14_Witness ==
  /\ Returned
  /\ call.totalItems > 0
  /\ call.skip = call.totalItems
  /\ call.totalItems % call.take # 0
  /\ ~outcome.value.hasNextPage

\* C15: in all three transform modes a call that succeeds returns exactly as
\* many elements as it was given items.
C15_LengthPreserved ==
  Returned => Len(outcome.value.data) = Len(call.data)

C15_Witness ==
  /\ Returned
  /\ call.transformerOrClass = toLowerEmail
  /\ Len(call.data) = 2
  /\ Len(outcome.value.data) = 2

\* C16: with a mapper f the data is f(items[1]), f(items[2]), ... in input
\* order: f is applied once per item, element i is the result for item i,
\* and it is the result f gives for that item alone.
C16_MapperInOrder ==
  (Returned /\ call.transformerOrClass \in {toDisplayName, toLowerEmail}) =>
    LET f == call.transformerOrClass
        out == outcome.value.data
    IN /\ Len(out) = Len(call.data)
       /\ outcome.mapperCalls = Len(call.data)
       /\ \A i \in 1..Len(call.data) :
            /\ out[i] = ApplyMapper(f, call.data[i])
            /\ toPaginationResponseDto(<<call.data[i]>>, call.totalItems,
                 call.skip, call.take, f).value.data = <<out[i]>>

C16_Witness ==
  /\ Returned
  /\ call.transformerOrClass = toDisplayName
  /\ Len(call.data) = 2
  /\ call.data[1].val.id # call.data[2].val.id
  /\ outcome.value.data[1].val.id = call.data[1].val.id

\* C17: without a transform the data is exactly the input items, in the same
\* order and with every property, password included.
C17_IdentityWithoutTransform ==
  (Returned /\ call.transformerOrClass = NoTransform) =>
    /\ outcome.value.data = call.data
    /\ \A i \in 1..Len(call.data) :
         Keys(outcome.value.data[i]) = Keys(call.data[i])

C17_Witness ==
  /\ Returned
  /\ call.transformerOrClass = NoTransform
  /\ Len(call.data) = 2
  /\ "password" \in Keys(outcome.value.data[1])

\* C18: itemsPerPage is the requested take whatever the number of items
\* passed in, and totalItems is the totalItems argument.
C18_ItemsPerPageIsTake ==
  Returned =>
    /\ outcome.value.itemsPerPage = call.take
    /\ outcome.value.totalItems = call.totalItems

C18_Witness ==
  /\ Returned
  /\ Len(call.data) > 0
  /\ Len(call.data) < call.take
  /\ outcome.value.itemsPerPage = call.take

\* the mapping functions among the transforms: arrow and ordinary
MappingFunctions == {toDisplayName, toLowerEmail, toDisplayNameFn}

\* C22: the mode follows the kind of the fifth argument: without one nothing
\* is applied, a DTO class is projected with, and every mapping function,
\* arrow or ordinary, is applied once per item as a mapper and never handed
\* to the projection.
C22_ModeByKind ==
  (Called /\ ~InvalidArguments) =>
    /\ call.transformerOrClass = NoTransform =>
         outcome.mapperCalls = 0 /\ outcome.projectionCalls = 0
    /\ call.transformerOrClass \in
           {MockUserDto, UserResponseDto, UserResponseDtoWithTransform} =>
         outcome.mapperCalls = 0 /\ outcome.projectionCalls = 1
    /\ call.transformerOrClass \in MappingFunctions =>
         /\ outcome.projectionCalls = 0
         /\ Returned =>
              /\ outcome.mapperCalls = Len(call.data)
              /\ \A i \in 1..Len(call.data) :
                   outcome.value.data[i] =
                     ApplyMapper(call.transformerOrClass, call.data[i])

\* C24 as stated: for all valid inputs hasNextPage is true exactly when
\* records exist after the requested window, skip + take < totalItems, also
\* when skip is not a multiple of take.
C24_NextPageIffRecordsAfterWindow ==
  Returned =>
    (outcome.value.hasNextPage <=> call.skip + call.take < call.totalItems)

\* C24 as amended: hasNextPage is true exactly when records exist after the
\* page that skip falls in, (skip - skip mod take) + take < totalItems; that
\* is skip + take < totalItems when skip is a multiple of take.
C24_NextPageIffRecordsAfterPage ==
  Returned =>
    /\ outcome.value.hasNextPage
         <=> (call.skip - (call.skip % call.take)) + call.take < call.totalItems
    /\ call.skip % call.take = 0 =>
         (outcome.value.hasNextPage
            <=> call.skip + call.take < call.totalItems)

C24_Witness ==
  /\ Returned
  /\ call.skip % call.take # 0
  /\ outcome.value.hasNextPage
  /\ call.skip + call.take >= call.totalItems

\* C26: when more than one argument is invalid the one error raised names
\* the first failing check in the order take, skip, totalItems: the take
\* error whenever take <= 0, the skip error only when take > 0 and skip < 0,
\* the totalItems error only when take > 0, skip >= 0 and totalItems < 0.
C26_FirstFailingCheck ==
  Called =>
    /\ call.take <= 0 =>
         Thrown /\ outcome.message = "Take must be greater than 0"
    /\ (Thrown /\ outcome.message = "Skip must be non-negative")
         <=> (call.take > 0 /\ call.skip < 0)
    /\ (Thrown /\ outcome.message = "Total items must be non-negative")
         <=> (call.take > 0 /\ call.skip >= 0 /\ call.totalItems < 0)

C26_Witness ==
  /\ Thrown
  /\ call.take <= 0
  /\ call.skip < 0
  /\ call.totalItems < 0
  /\ outcome.message = "Take must be greater than 0"

\* the number of requests the claim gives for a dataset of n records and
\* page size t
PagesOf(n, t) == IF n = 0 THEN 1 ELSE (n + t - 1) \div t

\* the client has its last envelope: nothing more to ask for
PagerStopped == outcome.kind = "return" /\ ~outcome.value.hasNextPage

\* what the client has received so far: request i reports currentPage = i
\* and the same totalPages, only the first has hasPreviousPage = false, the
\* windows do not overlap and hold the records they stand for; after the
\* last envelope totalPages requests were made and every record was
\* delivered exactly once
C25_Log ==
  LET n == call.totalItems
      t == call.take
  IN /\ Len(pager) <= PagesOf(n, t)
     /\ outcome.kind # "throw"
     /\ \A i \in 1..Len(pager) :
          /\ pager[i].skip = (i - 1) * t
          /\ pager[i].envelope.currentPage = i
          /\ pager[i].envelope.totalPages = PagesOf(n, t)
          /\ pager[i].envelope.hasPreviousPage <=> i > 1
     /\ \A k \in 0..(n - 1) :
          Cardinality({i \in 1..Len(pager) :
             pager[i].skip <= k /\ k < pager[i].skip + t}) <= 1
     /\ PagerStopped =>
          /\ Len(pager) = PagesOf(n, t)
          /\ \A k \in 0..(n - 1) :
               Cardinality({<<i, j>> \in (1..Len(pager)) \X (1..t) :
                  /\ j <= Len(pager[i].envelope.data)
                  /\ pager[i].envelope.data[j] = PagedRecord(k)}) = 1

\* C25: for take > 0 and totalItems >= 0 a client that starts at skip = 0
\* and asks again with skip + take while hasNextPage is true stops after
\* exactly totalPages requests, sees currentPage = 1, 2, ..., totalPages in
\* that order, only the first with hasPreviousPage = false, and its windows
\* cover every record index 0..totalItems-1 exactly once.  (Checked under
\* SpecPager.)
C25_ClientPagesThrough == [](C25_Log) /\ <>[](PagerStopped)

C25_Witness ==
  /\ PagerStopped
  /\ Len(pager) = 3
  /\ call.totalItems % call.take # 0
  /\ pager[3].envelope.currentPage = 3
  /\ Len(pager[3].envelope.data) < call.take

\* C23: the call leaves the items array as it was, and a change the caller
\* makes to the items array after the call (an element added, removed or
\* replaced) leaves the data of the envelope returned earlier as it was, in
\* each of the three transform modes.  (Checked under SpecCaller.)
C23_EnvelopeKeepsItsData ==
  [][/\ outcome.kind = "pending" => call'.data = call.data
     /\ outcome.kind = "return" => outcome'.value.data = outcome.value.data]_vars

----------------------------------------------------------------------------
(* Properties of UsersService behind UsersController, checked under Spec *)

\* the user records a response carries
ReturnedRecords(r) ==
  IF r.kind # "return" THEN {}
  ELSE IF r.op = "getUsers"
  THEN {r.value.data[i] : i \in 1..Len(r.value.data)}
  ELSE IF r.op \in {"addUser", "getById"} /\ r.value # Null
  THEN {r.value}
  ELSE {}

\* C8: no record returned by addUser, getById or getUsers contains the
\* password: each has only the properties UserResponseDto exposes, in every
\* reachable state of the users table.
C8_NoPasswordReturned ==
  \A rec \in ReturnedRecords(response) :
    /\ "password" \notin Keys(rec)
    /\ Keys(rec) \subseteq Exposed(UserResponseDto)

C8_Witness ==
  /\ response.op = "getUsers"
  /\ response.kind = "return"
  /\ Len(response.value.data) = 2
  /\ \A i \in 1..Len(users) : "password" \in Keys(users[i])

\* C9: the body of the users list carries the pagination information under
\* a meta object with the fields total, skip and take.
C9_MetaObject ==
  (response.op = "getUsers" /\ response.kind = "return") =>
    /\ "meta" \in DOMAIN response.value
    /\ DOMAIN response.value.meta = {"total", "skip", "take"}
    /\ response.value.meta.skip = response.arg.val.skip
    /\ response.value.meta.take = response.arg.val.take

\* C10: looking up an id that no stored user has ends in a not-found error
\* (HTTP 404), never in a successful response, and leaves the users table
\* unchanged.
C10_MissingIdIsNotFound ==
  [][\A id \in 1..(MaxUsers + 1) :
       (GetById(id) /\ findOne(users, id) = Null) =>
         /\ response'.kind = "throw"
         /\ HttpStatus(response') = 404
         /\ users' = users]_vars

\* the last response agrees with the users table: the row addUser created
\* has the returned id and the request's email; getById of a stored id
\* returns that row's id and email; an unfiltered getUsers has exactly one
\* entry, with the row's email, for every row inside its window
C20_ResponseAgreesWithTable ==
  /\ (response.op = "addUser" /\ response.kind = "return") =>
       \E k \in 1..Len(users) :
         /\ users[k].val.id = response.value.val.id
         /\ users[k].val.email = response.arg.val.email
  /\ response.op = "getById" =>
       \A k \in 1..Len(users) :
         users[k].val.id = response.arg.val.id =>
           /\ response.kind = "return"
           /\ response.value # Null
           /\ response.value.val.id = users[k].val.id
           /\ response.value.val.email = users[k].val.email
  /\ (response.op = "getUsers" /\ Defined(response.arg) = {"skip", "take"}) =>
       \A k \in 1..Len(users) :
         (response.arg.val.skip < k
            /\ k <= response.arg.val.skip + response.arg.val.take) =>
           /\ response.kind = "return"
           /\ LET data == response.value.data
                  entries == {j \in 1..Len(data) :
                                data[j].val.id = users[k].val.id}
              IN /\ Cardinality(entries) = 1
                 /\ \A j \in entries : data[j].val.email = users[k].val.email

\* no request removes or changes a stored row
C20_RowsPersist ==
  \A k \in 1..Len(users) : Len(users') >= k /\ users'[k] = users[k]

\* C20: once addUser(u) has returned id i, every later getById(i) returns a
\* user with u's email and every later unfiltered getUsers whose window
\* covers the user has exactly one entry with id i and u's email (the
\* service deletes no user).
C20_CreatedUserStaysReadable ==
  [](C20_ResponseAgreesWithTable) /\ [][C20_RowsPersist]_vars

C20_Witness ==
  /\ response.op = "getUsers"
  /\ response.kind = "return"
  /\ Defined(response.arg) = {"skip", "take"}
  /\ response.arg.val.skip = 1
  /\ Len(users) = 2
  /\ Len(response.value.data) = 1
  /\ response.value.data[1].val.id = users[2].val.id
  /\ response.value.data[1].val.email = users[2].val.email

----------------------------------------------------------------------------
(* Properties of concurrent POST /users requests, checked under            *)
(* SpecConcurrent                                                          *)

\* the rows of the table that hold the email of request c
RowsOf(c) ==
  {k \in 1..Len(users) : users[k].val.email = ConcurrentUser(c).val.email}

AllDone == \A c \in 1..MaxRequests : inflight[c].pc = "done"

\* every answered request succeeded with 201 and the id of its one row;
\* every request whose INSERT ran has exactly one row; no two rows share an
\* id; the table has no other rows
C21_OneRowPerRequest ==
  /\ \A c \in 1..MaxRequests :
       /\ inflight[c].pc \in {"saved", "done"} => Cardinality(RowsOf(c)) = 1
       /\ inflight[c].pc \in {"idle", "saving"} => RowsOf(c) = {}
       /\ inflight[c].pc = "done" =>
            /\ inflight[c].result.kind = "return"
            /\ HttpStatus(inflight[c].result) = 201
            /\ \A k \in RowsOf(c) :
                 users[k].val.id = inflight[c].result.value.val.id
  /\ \A j, k \in 1..Len(users) : j # k => users[j].val.id # users[k].val.id
  /\ Len(users) =
       Cardinality({c \in 1..MaxRequests : inflight[c].pc \in {"saved", "done"}})

\* a GET /users without filter, from skip 0 and with room for all, sent
\* after every request was answered lists one user per request
C21_ListedOnce ==
  \A query \in UnfilteredQueries :
    (/\ GetUsers(query)
     /\ AllDone
     /\ query.val.skip = 0
     /\ query.val.take >= MaxRequests) =>
       /\ response'.kind = "return"
       /\ Len(response'.value.data) = MaxRequests
       /\ \A c \in 1..MaxRequests :
            Cardinality({j \in 1..Len(response'.value.data) :
              /\ response'.value.data[j].val.email = ConcurrentUser(c).val.email
              /\ response'.value.data[j].val.id =
                   inflight[c].result.value.val.id}) = 1

\* C21: when several addUser requests with distinct emails run
\* concurrently, in any interleaving, every request succeeds, each creates
\* exactly one stored user with its own id, and once all have completed an
\* unfiltered getUsers covering them lists exactly one user per request.
C21_NoInsertLostOrDuplicated ==
  [](C21_OneRowPerRequest) /\ [][C21_ListedOnce]_vars

\* all answered, the second request's row inserted before the first's, and
\* the list holds both
C21_Witness ==
  /\ AllDone
  /\ Len(users) = MaxRequests
  /\ users[1].val.email = ConcurrentUser(2).val.email
  /\ inflight[1].result.value.val.id > inflight[2].result.value.val.id
  /\ response.op = "getUsers"
  /\ response.kind = "return"
  /\ Len(response.value.data) = MaxRequests

----------------------------------------------------------------------------
(* Properties of ApiClientService, checked under SpecApiClient *)

Awaiting == request.pc = "awaiting"

\* the retries of the call in progress as the caller gave them: the
\* per-call value, else the one configured when the call started, else 0
RetriesGiven ==
  IF "retries" \in DOMAIN request.callOptions
  THEN request.callOptions.retries
  ELSE IF "retries" \in DOMAIN request.optionsAtCall
  THEN request.optionsAtCall.retries
  ELSE 0

\* never more than r + 1 attempts, and a rejected call has made exactly
\* r + 1, all of them failed
C27_AttemptsBounded ==
  request.pc # "idle" =>
    /\ request.attempts <= RetriesGiven + 1
    /\ request.pc = "rejected" =>
         /\ request.attempts = RetriesGiven + 1
         /\ request.failures = RetriesGiven + 1
         /\ request.result.kind = "error"

\* the call is rejected with the error of the attempt that failed last
C27_RejectsWithLastError ==
  \A error \in ApiErrors :
    (AttemptFails(error) /\ request'.pc = "rejected") =>
      request'.result = [kind |-> "error", value |-> error]

\* C27: when every attempt fails, request makes exactly r + 1 attempts and
\* then rejects with the error of the last one, r being the per-call
\* retries, else the configured retries, else 0; no call makes more than
\* r + 1 attempts, and a call whose attempts complete settles.
C27_RetriesThenRejects ==
  /\ [](C27_AttemptsBounded)
  /\ [][C27_RejectsWithLastError]_vars
  /\ (Awaiting ~> ~Awaiting)

C27_Witness ==
  /\ request.pc = "rejected"
  /\ "retries" \notin DOMAIN request.callOptions
  /\ "retries" \in DOMAIN request.optionsAtCall
  /\ request.optionsAtCall.retries = 2
  /\ request.attempts = 3

\* every attempt but the one in flight or the successful one has failed
C28_RetryOnlyAfterFailure ==
  /\ request.pc \in {"awaiting", "resolved"} =>
       request.attempts = request.failures + 1
  /\ request.pc = "resolved" => request.result.kind = "data"

\* a fulfilled attempt resolves the call with its data and sends nothing;
\* a resolved call makes no further attempt
C28_StopsAtSuccess ==
  /\ \A data \in ApiData :
       AttemptSucceeds(data) =>
         /\ request'.pc = "resolved"
         /\ request'.result = [kind |-> "data", value |-> data]
         /\ request'.attempts = request.attempts
         /\ request'.sent = request.sent
  /\ (request.pc = "resolved" /\ request' # request) =>
       (request'.attempts = 1 /\ request'.failures = 0)

\* C28: request stops at the first successful attempt: it resolves with the
\* data of that response, makes no further attempt, does not surface the
\* error of an earlier failed attempt, and a retry is started only after
\* the attempt before it has failed.
C28_FirstSuccessWins ==
  [](C28_RetryOnlyAfterFailure) /\ [][C28_StopsAtSuccess]_vars

C28_Witness ==
  /\ request.pc = "resolved"
  /\ request.failures = 2
  /\ request.attempts = 3
  /\ request.lastError \in ApiErrors
  /\ request.result.kind = "data"

\* C29: every attempt sends the configured default headers merged with the
\* headers of the request, the request's value winning for a header in
\* both; a default header the request does not override is still sent when
\* the request has headers of its own.
C29_SendsMergedHeaders ==
  [][(request'.pc = "awaiting" /\ request' # request) =>
       request'.sent.headers =
         ObjectAssign(OrDefault(options, "headers", EmptyObject),
                      OrDefault(request'.config, "headers", EmptyObject))]_vars

\* C30: all attempts of one call use the base URL, timeout and default
\* headers in force when the call started, also when configure is called
\* between a failed attempt and its retry.
C30_AttemptsUseOptionsAtCall ==
  request.pc # "idle" =>
    request.sent = axiosConfig(request.optionsAtCall, request.config)

====
